---- MODULE Spec2Model ----
(***************************************************************************)
(* State machine of src/CollaborativeEditor.js: the React component's      *)
(* state (document, users, history, historyIndex, selectedText,            *)
(* formatting, isTyping), the textarea's selection, the pending timeout    *)
(* callbacks and the pending FileReader loads.  Every event handler is one *)
(* action.  Strings are TLA+ strings (Len, SubSeq and \o apply to them);   *)
(* array and string positions are 0-based as in the source, and the JS     *)
(* primitives (slice, substring, replace) are operators that compute what  *)
(* the primitives compute.  A closure created by a render keeps the        *)
(* historyIndex of that render: the callbacks carry it as hIdx.            *)
(***************************************************************************)
EXTENDS Integers, Sequences, FiniteSets, TLC

VARIABLES doc, users, isTyping, history, historyIndex, selectedText,
          formatting, selStart, selEnd, typingTimeoutRef, timers, readers,
          burst, last

vars == <<doc, users, isTyping, history, historyIndex, selectedText,
          formatting, selStart, selEnd, typingTimeoutRef, timers, readers,
          burst, last>>

-----------------------------------------------------------------------------
(* Program constants *)

DebounceMs == 1000

HistoryCap == 50

LocalUserId == 1

(* Bounds of the model *)

MaxVersion == 4

MaxCapVersion == 54

MaxLoads == 1

MaxLen == 6

MaxCapUndo == 2

MaxEditVersion == 3

MaxPosVersion == 3

Texts == {"", "a", "ab", "abc"}

CapTexts == {"a", "ab"}

EditTexts == {"", "ab"}

FormatTexts == {"a"}

PosTexts == {"", "ab\ncd", "a\n", "\n\nb"}

Files == {[name |-> "a.b.md", text |-> "x"]}

NoFile == [name |-> "", text |-> ""]

Titles == {"Untitled Document", "t"}

Formats == {"bold", "italic", "underline"}

HalfInterval == DebounceMs \div 2

-----------------------------------------------------------------------------
(* JavaScript primitives *)

Min(a, b) == IF a < b THEN a ELSE b

Max(a, b) == IF a > b THEN a ELSE b

\* The value of an array read outside the array, and of a state field set
\* from it.  No text that is typed or imported equals it.
Undefined == "<undefined>"

\* arr[i]
At(arr, i) == IF 0 <= i /\ i < Len(arr) THEN arr[i + 1] ELSE Undefined

\* arr.slice(0, end)
SliceTo(arr, end) ==
    IF end >= 0 THEN SubSeq(arr, 1, Min(end, Len(arr)))
                ELSE SubSeq(arr, 1, Max(Len(arr) + end, 0))

\* arr.slice(-n), n > 0
SliceLast(arr, n) == SubSeq(arr, Max(Len(arr) - n, 0) + 1, Len(arr))

Clamp(i, s) == Min(Max(i, 0), Len(s))

\* s.substring(a, b): both ends clamped to [0, s.length], swapped if a > b
Substring(s, a, b) ==
    LET ca == Clamp(a, s)
        cb == Clamp(b, s)
    IN SubSeq(s, Min(ca, cb) + 1, Max(ca, cb))

\* s.substring(a)
SubstringFrom(s, a) == Substring(s, a, Len(s))

CharAt(s, i) == SubSeq(s, i + 1, i + 1)

\* The start (0-based) of the match of /\.[^/.]+$/ in name, or -1: the last
\* "." of name, when at least one character follows it and no "/" does.
ExtensionStart(name) ==
    LET dots == {i \in 0..(Len(name) - 1) : CharAt(name, i) = "."}
        lastDot == CHOOSE i \in dots : \A j \in dots : j <= i
    IN IF dots = {} THEN -1
       ELSE IF lastDot = Len(name) - 1 THEN -1
       ELSE IF \E j \in (lastDot + 1)..(Len(name) - 1) : CharAt(name, j) = "/" THEN -1
       ELSE lastDot

\* file.name.replace(/\.[^/.]+$/, "")
StripExtension(name) ==
    IF ExtensionStart(name) < 0 THEN name ELSE Substring(name, 0, ExtensionStart(name))

\* s.split('\n')
RECURSIVE SplitLines(_)
SplitLines(s) ==
    LET breaks == {i \in 1..Len(s) : SubSeq(s, i, i) = "\n"}
        first == CHOOSE i \in breaks : \A j \in breaks : i <= j
    IN IF breaks = {} THEN <<s>>
       ELSE <<SubSeq(s, 1, first - 1)>> \o SplitLines(SubSeq(s, first + 1, Len(s)))

\* getCursorPosition with a 0-based column
GetCursorPositionZeroBased(position, content) ==
    LET lines == SplitLines(Substring(content, 0, position))
    IN [line |-> Len(lines), column |-> Len(lines[Len(lines)])]

\* getCursorPosition
GetCursorPosition(position, content) ==
    LET lines == SplitLines(Substring(content, 0, position))
    IN [line |-> Len(lines), column |-> Len(lines[Len(lines)]) + 1]

-----------------------------------------------------------------------------
(* Pure parts of the handlers *)

\* saveToHistory writing the new content over the oldest entry as well
SaveHistoryOverwriting(prev, hIdx, content) ==
    LET h == SliceLast(Append(SliceTo(prev, hIdx + 1), content), HistoryCap)
    IN [i \in 1..Len(h) |-> IF i = 1 THEN content ELSE h[i]]

\* saveToHistory without the slice(-50)
SaveHistoryUncapped(prev, hIdx, content) == Append(SliceTo(prev, hIdx + 1), content)

\* the updater passed to setHistory by saveToHistory, with the closure's
\* historyIndex
SaveHistory(prev, hIdx, content) ==
    SliceLast(Append(SliceTo(prev, hIdx + 1), content), HistoryCap)

\* the updater passed to setHistoryIndex by saveToHistory
SaveHistoryIndex(prev) == prev + 1

\* undo's guard off by one
UndoEnabledFromZero(hIdx) == hIdx >= 0

UndoEnabled(hIdx) == hIdx > 0

RedoEnabled(h, hIdx) == hIdx < Len(h) - 1

\* disabled= of the two buttons
UndoDisabled == historyIndex <= 0

RedoDisabled == historyIndex >= Len(history) - 1

\* The component renders while document.content is a string; rendering
\* undefined throws (content.substring, content.split) and unmounts it.
Mounted == doc.content # Undefined

\* The textarea is controlled (value={document.content}): when a render
\* gives it another value, the browser puts the caret at the end of it.
CaretAfterRender(old, new, pos) == IF new = old THEN pos ELSE Len(new)

SetCursor(us, id, pos) ==
    [i \in 1..Len(us) |-> IF us[i].id = id THEN [us[i] EXCEPT !.cursor = pos] ELSE us[i]]

\* a content change that forgets the version
BumpVersionForgotten(v) == v

BumpVersion(v) == v + 1

\* setTimeout gives an id no pending timer has
FreshTimerId == CHOOSE n \in 1..(Cardinality(timers) + 2) :
                    n # typingTimeoutRef /\ \A t \in timers : t.id # n

\* handleContentChange without the clearTimeout
ClearTimeoutForgotten(ts, id) == ts

\* clearTimeout(id)
ClearTimeout(ts, id) == {t \in ts : t.id # id}

NoEdit == [content |-> "", since |-> DebounceMs, commits |-> 0, edits |-> 0]

Did(op) == [op |-> op, content |-> "", name |-> ""]

-----------------------------------------------------------------------------
Init ==
    /\ doc = [title |-> "Untitled Document", content |-> "", version |-> 1]
    /\ users = << [id |-> 1, cursor |-> 0, active |-> TRUE],
                  [id |-> 2, cursor |-> 15, active |-> TRUE],
                  [id |-> 3, cursor |-> 32, active |-> FALSE] >>
    /\ isTyping = FALSE
    /\ history = << >>
    /\ historyIndex = -1
    /\ selectedText = ""
    /\ formatting = [bold |-> FALSE, italic |-> FALSE, underline |-> FALSE]
    /\ selStart = 0
    /\ selEnd = 0
    /\ typingTimeoutRef = 0
    /\ timers = {}
    /\ readers = << >>
    /\ burst = NoEdit
    /\ last = Did("init")

-----------------------------------------------------------------------------
(* Handlers *)

\* handleContentChange: the textarea's value became newContent, with the
\* caret at cursorPosition
HandleContentChange(newContent, cursorPosition) ==
    /\ Mounted
    /\ newContent # doc.content
    /\ doc' = [doc EXCEPT !.content = newContent, !.version = BumpVersion(@)]
    /\ users' = SetCursor(users, LocalUserId, cursorPosition)
    /\ isTyping' = TRUE
    /\ LET id == FreshTimerId
       IN /\ timers' = ClearTimeout(timers, typingTimeoutRef) \cup
                         {[id |-> id, content |-> newContent, hIdx |-> historyIndex,
                           remaining |-> DebounceMs]}
          /\ typingTimeoutRef' = id
    /\ selStart' = cursorPosition
    /\ selEnd' = cursorPosition
    /\ burst' = [content |-> newContent, since |-> 0, commits |-> 0,
                 edits |-> IF burst.since < DebounceMs THEN Min(burst.edits + 1, 2) ELSE 1]
    /\ last' = Did("HandleContentChange")
    /\ UNCHANGED <<history, historyIndex, selectedText, formatting, readers>>

\* time passes, by half the debounce interval; a callback that is due runs
\* before more time passes
Tick ==
    /\ timers # {}
    /\ \A t \in timers : t.remaining >= HalfInterval
    /\ timers' = {[t EXCEPT !.remaining = @ - HalfInterval] : t \in timers}
    /\ burst' = [burst EXCEPT !.since = Min(@ + HalfInterval, DebounceMs)]
    /\ last' = Did("Tick")
    /\ UNCHANGED <<doc, users, isTyping, history, historyIndex, selectedText,
                   formatting, selStart, selEnd, typingTimeoutRef, readers>>

\* the callback given to setTimeout by handleContentChange
DebounceFire ==
    /\ Mounted
    /\ \E t \in timers :
        /\ t.remaining = 0
        /\ timers' = timers \ {t}
        /\ isTyping' = FALSE
        /\ history' = SaveHistory(history, t.hIdx, t.content)
        /\ historyIndex' = SaveHistoryIndex(historyIndex)
        /\ burst' = [burst EXCEPT !.commits = Min(@ + 1, 2)]
        /\ last' = [op |-> "DebounceFire", content |-> t.content, name |-> ""]
    /\ UNCHANGED <<doc, users, selectedText, formatting, selStart, selEnd,
                   typingTimeoutRef, readers>>

\* undo: the historyIndex and content it leaves, from the history,
\* historyIndex and content of the render it runs in
UndoOutcome(h, hIdx, content) ==
    IF UndoEnabled(hIdx)
    THEN [historyIndex |-> hIdx - 1, content |-> At(h, hIdx - 1)]
    ELSE [historyIndex |-> hIdx, content |-> content]

\* redo, likewise
RedoOutcome(h, hIdx, content) ==
    IF RedoEnabled(h, hIdx)
    THEN [historyIndex |-> hIdx + 1, content |-> At(h, hIdx + 1)]
    ELSE [historyIndex |-> hIdx, content |-> content]

Undo ==
    /\ Mounted
    /\ LET r == UndoOutcome(history, historyIndex, doc.content)
       IN /\ historyIndex' = r.historyIndex
          /\ doc' = [doc EXCEPT !.content = r.content]
    /\ selStart' = CaretAfterRender(doc.content, doc'.content, selStart)
    /\ selEnd' = CaretAfterRender(doc.content, doc'.content, selEnd)
    /\ last' = Did("Undo")
    /\ UNCHANGED <<users, isTyping, history, selectedText, formatting,
                   typingTimeoutRef, timers, readers, burst>>

Redo ==
    /\ Mounted
    /\ LET r == RedoOutcome(history, historyIndex, doc.content)
       IN /\ historyIndex' = r.historyIndex
          /\ doc' = [doc EXCEPT !.content = r.content]
    /\ selStart' = CaretAfterRender(doc.content, doc'.content, selStart)
    /\ selEnd' = CaretAfterRender(doc.content, doc'.content, selEnd)
    /\ last' = Did("Redo")
    /\ UNCHANGED <<users, isTyping, history, selectedText, formatting,
                   typingTimeoutRef, timers, readers, burst>>

\* importDocument: a file was chosen (or none); reading it is asynchronous
ImportDocument(file) ==
    /\ Mounted
    /\ IF file # NoFile
       THEN readers' = Append(readers, [content |-> file.text, name |-> file.name,
                                        hIdx |-> historyIndex])
       ELSE UNCHANGED readers
    /\ last' = Did("ImportDocument")
    /\ UNCHANGED <<doc, users, isTyping, history, historyIndex, selectedText,
                   formatting, selStart, selEnd, typingTimeoutRef, timers, burst>>

\* reader.onload of the i-th pending reader
ReaderOnLoad(i) ==
    /\ Mounted
    /\ i \in 1..Len(readers)
    /\ LET r == readers[i]
       IN /\ doc' = [doc EXCEPT !.content = r.content,
                                !.title = StripExtension(r.name),
                                !.version = BumpVersion(@)]
          /\ history' = SaveHistory(history, r.hIdx, r.content)
          /\ historyIndex' = SaveHistoryIndex(historyIndex)
          /\ last' = [op |-> "ReaderOnLoad", content |-> r.content, name |-> r.name]
    /\ readers' = SubSeq(readers, 1, i - 1) \o SubSeq(readers, i + 1, Len(readers))
    /\ selStart' = CaretAfterRender(doc.content, doc'.content, selStart)
    /\ selEnd' = CaretAfterRender(doc.content, doc'.content, selEnd)
    /\ UNCHANGED <<users, isTyping, selectedText, formatting, typingTimeoutRef,
                   timers, burst>>

\* handleTitleChange counting a title change as a new version
HandleTitleChangeVersioned(value) ==
    /\ Mounted
    /\ value # doc.title
    /\ doc' = [doc EXCEPT !.title = value, !.version = @ + 1]
    /\ last' = Did("HandleTitleChange")
    /\ UNCHANGED <<users, isTyping, history, historyIndex, selectedText, formatting,
                   selStart, selEnd, typingTimeoutRef, timers, readers, burst>>

\* handleTitleChange
HandleTitleChange(value) ==
    /\ Mounted
    /\ value # doc.title
    /\ doc' = [doc EXCEPT !.title = value]
    /\ last' = Did("HandleTitleChange")
    /\ UNCHANGED <<users, isTyping, history, historyIndex, selectedText, formatting,
                   selStart, selEnd, typingTimeoutRef, timers, readers, burst>>

\* handleTextSelection, on a select event of the textarea: the user put the
\* selection (or, with start = end, the caret) at [start, end)
HandleTextSelection(start, end) ==
    /\ Mounted
    /\ <<start, end>> # <<selStart, selEnd>>
    /\ selStart' = start
    /\ selEnd' = end
    /\ selectedText' = Substring(doc.content, start, end)
    /\ last' = Did("HandleTextSelection")
    /\ UNCHANGED <<doc, users, isTyping, history, historyIndex, formatting,
                   typingTimeoutRef, timers, readers, burst>>

\* the switch of applyFormatting
FormattedText(format, selected) ==
    CASE format = "bold" -> "**" \o selected \o "**"
      [] format = "italic" -> "*" \o selected \o "*"
      [] format = "underline" -> "__" \o selected \o "__"
      [] OTHER -> selected

\* newContent of applyFormatting
FormattedContent(format, content, selected, start, end) ==
    Substring(content, 0, start) \o FormattedText(format, selected)
        \o SubstringFrom(content, end)

ApplyFormatting(format) ==
    /\ Mounted
    /\ IF selectedText = ""
       THEN UNCHANGED <<doc, formatting, selStart, selEnd>>
       ELSE /\ doc' = [doc EXCEPT !.content =
                          FormattedContent(format, doc.content, selectedText, selStart, selEnd)]
            /\ formatting' = [formatting EXCEPT ![format] = ~@]
            /\ selStart' = CaretAfterRender(doc.content, doc'.content, selStart)
            /\ selEnd' = CaretAfterRender(doc.content, doc'.content, selEnd)
    /\ last' = Did("ApplyFormatting")
    /\ UNCHANGED <<users, isTyping, history, historyIndex, selectedText,
                   typingTimeoutRef, timers, readers, burst>>

\* Math.floor(Math.random() * content.length)
RandomPositions(content) == IF Len(content) = 0 THEN {0} ELSE 0..(Len(content) - 1)

\* the filter without u.id !== 1
RemoteActiveWithLocal(us) == {i \in 1..Len(us) : us[i].active}

\* users.filter(u => u.active && u.id !== 1), as positions in users
RemoteActive(us) == {i \in 1..Len(us) : us[i].active /\ us[i].id # LocalUserId}

\* users.filter(u => u.active)
ActiveUsers(us) == SelectSeq(us, LAMBDA u : u.active)

\* the setInterval callback, when Math.random() > 0.7 and a remote user is
\* active: randomUser is the i-th user
RemoteCursorUpdate(i, randomPosition) ==
    /\ Mounted
    /\ i \in RemoteActive(users)
    /\ randomPosition \in RandomPositions(doc.content)
    /\ users' = SetCursor(users, users[i].id, randomPosition)
    /\ last' = Did("RemoteCursorUpdate")
    /\ UNCHANGED <<doc, isTyping, history, historyIndex, selectedText, formatting,
                   selStart, selEnd, typingTimeoutRef, timers, readers, burst>>

-----------------------------------------------------------------------------
(* Specifications *)

\* Spec: typing at the end of the text, the debounce timer, import, undo and
\* redo.
Type ==
    /\ doc.version < MaxVersion
    /\ \E t \in Texts : HandleContentChange(t, Len(t))

Import ==
    /\ Len(readers) < MaxLoads
    /\ \E f \in Files \cup {NoFile} : ImportDocument(f)

Load ==
    /\ doc.version < MaxVersion
    /\ \E i \in 1..Len(readers) : ReaderOnLoad(i)

Next ==
    \/ Type
    \/ Tick
    \/ DebounceFire
    \/ Undo
    \/ Redo
    \/ Import
    \/ Load

Spec == Init /\ [][Next]_vars

\* SpecCap: a long session that fills the history beyond HistoryCap.  The
\* user types "a" and "ab" in turn, each after the previous edit has been
\* committed, and uses undo and redo within MaxCapUndo entries of position
\* HistoryCap.
CapType ==
    /\ doc.version < MaxCapVersion
    /\ timers = {}
    /\ \E t \in CapTexts : HandleContentChange(t, Len(t))

NearCap == historyIndex + MaxCapUndo >= HistoryCap

CapUndo == NearCap /\ Undo

NextCap ==
    \/ CapType
    \/ Tick
    \/ DebounceFire
    \/ CapUndo
    \/ Redo

SpecCap == Init /\ [][NextCap]_vars

\* SpecUsers: a short editing session with the caret anywhere, title
\* changes and remote cursor updates.
EditType ==
    /\ doc.version < MaxEditVersion
    /\ \E t \in EditTexts : \E c \in 0..Len(t) : HandleContentChange(t, c)

Retitle == \E t \in Titles : HandleTitleChange(t)

Remote == \E i \in 1..Len(users) : \E p \in 0..MaxLen : RemoteCursorUpdate(i, p)

NextUsers ==
    \/ EditType
    \/ Tick
    \/ DebounceFire
    \/ Undo
    \/ Redo
    \/ Retitle
    \/ Remote

SpecUsers == Init /\ [][NextUsers]_vars

\* SpecFormat: a short editing session with selections and the three
\* formats, applied while the text stays within MaxLen characters.
FormatType ==
    /\ doc.version < MaxEditVersion
    /\ \E t \in FormatTexts : HandleContentChange(t, Len(t))

Select == \E s \in 0..Len(doc.content) : \E e \in s..Len(doc.content) :
              HandleTextSelection(s, e)

Format ==
    \E f \in Formats :
        /\ Len(FormattedContent(f, doc.content, selectedText, selStart, selEnd)) <= MaxLen
        /\ ApplyFormatting(f)

NextFormat ==
    \/ FormatType
    \/ Tick
    \/ DebounceFire
    \/ Undo
    \/ Redo
    \/ Select
    \/ Format

SpecFormat == Init /\ [][NextFormat]_vars

\* SpecPos: texts with line breaks, the caret anywhere, remote cursor
\* updates and undo, for the positions shown in the sidebar.
PosType ==
    /\ doc.version < MaxPosVersion
    /\ \E t \in PosTexts : \E c \in 0..Len(t) : HandleContentChange(t, c)

NextPos ==
    \/ PosType
    \/ Tick
    \/ DebounceFire
    \/ Undo
    \/ Remote

SpecPos == Init /\ [][NextPos]_vars

-----------------------------------------------------------------------------
(* Properties *)

Commits == {"DebounceFire", "ReaderOnLoad"}

\* every variable of the program (last and burst only record what happened)
program == <<doc, users, isTyping, history, historyIndex, selectedText,
             formatting, selStart, selEnd, typingTimeoutRef, timers, readers>>

\* C1: whenever the history is non-empty, 0 <= historyIndex < history.length.
C1_IndexInRange ==
    Len(history) > 0 => (0 <= historyIndex /\ historyIndex < Len(history))

\* C2: right after a commit (by the debounce callback or by an import),
\* historyIndex is history.length - 1 and the entry there is the content
\* just committed.
C2_CommitIsLast ==
    last.op \in Commits =>
        /\ historyIndex = Len(history) - 1
        /\ At(history, historyIndex) = last.content

\* C3: the history never holds more than 50 entries.
C3_HistoryCapped == Len(history) <= HistoryCap

\* a commit has just evicted the oldest entry: more than HistoryCap edits
\* were made, each committed before the next
C3_Evicted ==
    /\ last.op = "DebounceFire"
    /\ doc.version > HistoryCap + 1
    /\ Len(history) = HistoryCap

\* C4: a commit made while redo is available (after one or more undos)
\* appends the content at historyIndex + 1, discards every entry after the
\* historyIndex current at the time of the commit, and leaves redo
\* unavailable.
C4_CommitAfterUndoTruncates ==
    [][(last'.op \in Commits /\ 0 <= historyIndex /\ RedoEnabled(history, historyIndex)) =>
          /\ history' = Append(SliceTo(history, historyIndex + 1), last'.content)
          /\ historyIndex' = historyIndex + 1
          /\ ~RedoEnabled(history', historyIndex')
          /\ RedoOutcome(history', historyIndex', doc'.content)
                 = [historyIndex |-> historyIndex', content |-> doc'.content]]_vars

\* C5: where undo is enabled, undo followed at once by redo leaves the
\* content and historyIndex as they were before the undo.
C5_UndoRedoRestores ==
    (Mounted /\ ~UndoDisabled) =>
        LET u == UndoOutcome(history, historyIndex, doc.content)
            r == RedoOutcome(history, u.historyIndex, u.content)
        IN /\ r.content = doc.content
           /\ r.historyIndex = historyIndex

\* C6: at most one debounce callback is pending, it is the one of the last
\* edit and is due DebounceMs after that edit; a callback runs only then,
\* commits the last edit's content, and is the only commit since that edit;
\* no commit comes between two edits less than DebounceMs apart.
C6_Debounce ==
    /\ [](/\ Cardinality(timers) <= 1
          /\ \A t \in timers : /\ t.id = typingTimeoutRef
                               /\ t.content = burst.content
                               /\ t.remaining = DebounceMs - burst.since
          /\ burst.commits <= 1
          /\ (timers = {} /\ burst.edits > 0) => burst.commits = 1)
    /\ [][last'.op = "DebounceFire" =>
             /\ burst.since = DebounceMs
             /\ last'.content = burst.content
             /\ burst.commits = 0
             /\ timers' = {}]_vars
    /\ [][(last'.op = "HandleContentChange" /\ burst.since < DebounceMs) =>
             burst.commits = 0]_vars

\* a callback has run after a burst of two or more rapid edits
C6_BurstCommitted ==
    /\ last.op = "DebounceFire"
    /\ burst.edits >= 2
    /\ burst.commits = 1

\* C7: undo and redo leave the whole state unchanged exactly where their
\* buttons are disabled.
C7_BoundaryNoOps ==
    /\ [][last'.op = "Undo" => (UndoDisabled <=> UNCHANGED program)]_vars
    /\ [][last'.op = "Redo" => (RedoDisabled <=> UNCHANGED program)]_vars

\* undo has run on the empty history
C7_UndoAtBoundary == last.op = "Undo" /\ historyIndex = -1 /\ doc.version > 1

\* C8: every user's stored cursor offset lies in [0, content.length].
C8_CursorsInRange ==
    Mounted => \A i \in 1..Len(users) :
                   0 <= users[i].cursor /\ users[i].cursor <= Len(doc.content)

\* C9: the version is at least 1 and never decreases, and every
\* handleContentChange and every import increases it by exactly 1.
C9_VersionGrows ==
    /\ [](doc.version >= 1)
    /\ [][/\ doc'.version >= doc.version
          /\ last'.op \in {"HandleContentChange", "ReaderOnLoad"} =>
                 doc'.version = doc.version + 1]_vars

\* an import has raised the version after an edit did
C9_ImportBumped == last.op = "ReaderOnLoad" /\ doc.version > 2

\* C10: right after the load callback of an import, the content is the
\* file's text, the title is the file name up to its last ".", the last
\* history entry is the imported content and historyIndex points at it.
C10_ImportCommits ==
    last.op = "ReaderOnLoad" =>
        /\ doc.content = last.content
        /\ \E k \in 1..Len(last.name) :
              /\ CharAt(last.name, k - 1) = "."
              /\ \A j \in (k + 1)..Len(last.name) : CharAt(last.name, j - 1) # "."
              /\ doc.title = SubSeq(last.name, 1, k - 1)
        /\ At(history, Len(history) - 1) = last.content
        /\ historyIndex = Len(history) - 1

\* the number of line breaks among the first offset characters of content
BreaksBefore(offset, content) ==
    Cardinality({i \in 1..offset : SubSeq(content, i, i) = "\n"})

\* the number of characters between the last line break before offset (or
\* the start) and offset
CharsSinceBreak(offset, content) ==
    LET breaks == {i \in 1..offset : SubSeq(content, i, i) = "\n"}
    IN IF breaks = {} THEN offset
       ELSE offset - (CHOOSE i \in breaks : \A j \in breaks : j <= i)

\* C11: for every offset in [0, content.length], getCursorPosition gives
\* line = 1 + the line breaks before offset and column = 1 + the characters
\* since the last of them; positionOf(0, "") = {1, 1}, positionOf(5,
\* "ab\ncd") = {2, 3}, and the end of a text ending in a line break is
\* column 1 of a new line.
C11_PositionOf ==
    /\ \A offset \in 0..Len(doc.content) :
          Mounted => GetCursorPosition(offset, doc.content) =
                         [line |-> 1 + BreaksBefore(offset, doc.content),
                          column |-> 1 + CharsSinceBreak(offset, doc.content)]
    /\ doc.content = "" => GetCursorPosition(0, doc.content) = [line |-> 1, column |-> 1]
    /\ doc.content = "ab\ncd" =>
          GetCursorPosition(5, doc.content) = [line |-> 2, column |-> 3]
    /\ doc.content = "a\n" =>
          GetCursorPosition(2, doc.content) = [line |-> 2, column |-> 1]

\* the local user's caret is at the end of "ab\ncd"
C11_EndOfSecondLine ==
    /\ doc.content = "ab\ncd"
    /\ users[1].cursor = 5
    /\ GetCursorPosition(users[1].cursor, doc.content) = [line |-> 2, column |-> 3]

\* C12: in every reachable state the position shown for every active user is
\* computed without failing (the content is a string), equals the position
\* of the offset clamped to content.length, and has line >= 1, column >= 1.
C12_ShownPositions ==
    /\ doc.content # Undefined
    /\ \A i \in 1..Len(users) :
          users[i].active =>
              LET shown == GetCursorPosition(users[i].cursor, doc.content)
              IN /\ shown = GetCursorPosition(Min(users[i].cursor, Len(doc.content)),
                                              doc.content)
                 /\ shown.line >= 1
                 /\ shown.column >= 1

\* C13: a title change replaces only the title: version, content, history,
\* historyIndex, the users' cursors and the pending debounce callback are
\* unchanged.
C13_TitleOnly ==
    [][last'.op = "HandleTitleChange" =>
          /\ doc'.title # doc.title
          /\ doc'.content = doc.content
          /\ doc'.version = doc.version
          /\ UNCHANGED <<users, isTyping, history, historyIndex, selectedText,
                         formatting, selStart, selEnd, typingTimeoutRef, timers,
                         readers>>]_vars

\* the title was changed while a debounce callback was pending and the
\* history was not empty
C13_TitleChangedWhilePending ==
    /\ last.op = "HandleTitleChange"
    /\ doc.title = "t"
    /\ timers # {}
    /\ Len(history) > 0

\* the markers of the three formats
Marker(format) ==
    CASE format = "bold" -> "**" [] format = "italic" -> "*" [] format = "underline" -> "__"

\* C14: applying a format with an empty selection leaves the whole state
\* unchanged; with the selection [selStart, selEnd) not empty the content
\* becomes the text before it + marker + the selected text + marker + the
\* text after it (so that formatting the same text again adds a layer).
C14_FormatWrapsSelection ==
    [][last'.op = "ApplyFormatting" =>
          IF selStart = selEnd
          THEN UNCHANGED program
          ELSE \E f \in Formats :
                  doc'.content = Substring(doc.content, 0, selStart) \o Marker(f)
                                    \o Substring(doc.content, selStart, selEnd) \o Marker(f)
                                    \o SubstringFrom(doc.content, selEnd)]_vars

\* C15: undo and redo never change the history, and a commit keeps the
\* entries it retains: the new history is a run of consecutive entries of
\* the old one, unchanged and in order, followed by the committed content.
C15_EntriesImmutable ==
    /\ [][last'.op \in {"Undo", "Redo"} => history' = history]_vars
    /\ [][last'.op \in Commits =>
             \E from \in 1..(Len(history) + 1) : \E to \in 0..Len(history) :
                 history' = Append(SubSeq(history, from, to), last'.content)]_vars

\* a commit has evicted the oldest entry in a session where undo was used
C15_EvictedAfterUndo ==
    /\ last.op = "DebounceFire"
    /\ doc.version > HistoryCap + 2
    /\ Len(history) = HistoryCap
    /\ historyIndex < HistoryCap

Ids(us) == [i \in 1..Len(us) |-> us[i].id]

\* C16: a remote cursor update sets the cursor of one user, who is active
\* and not the local user, to an offset in [0, content.length], and changes
\* nothing else: not the other users' cursors, nobody's active flag, not the
\* users' order; the active users stay in registration order.
C16_RemoteUpdateFrame ==
    /\ [][last'.op = "RemoteCursorUpdate" =>
             /\ \E i \in 1..Len(users) : \E p \in 0..Len(doc.content) :
                   /\ users[i].active
                   /\ users[i].id # LocalUserId
                   /\ users' = [users EXCEPT ![i].cursor = p]
             /\ UNCHANGED <<doc, isTyping, history, historyIndex, selectedText,
                            formatting, selStart, selEnd, typingTimeoutRef, timers,
                            readers>>]_vars
    /\ [](/\ Ids(users) = <<1, 2, 3>>
          /\ Ids(ActiveUsers(users)) = <<1, 2>>)

\* a remote update has moved Alice's cursor into a text that is not empty
C16_AliceMoved ==
    /\ last.op = "RemoteCursorUpdate"
    /\ Len(doc.content) > 1
    /\ users[2].cursor = 1

\* C17: whenever a debounce callback fires, the content it commits is the
\* document's content at that moment, and it is appended right after the
\* then-current historyIndex, whatever ran between the edit and the firing.
C17_NoStaleCommit ==
    [][last'.op = "DebounceFire" =>
          /\ last'.content = doc.content
          /\ history' = SaveHistory(history, historyIndex, last'.content)]_vars

\* C18: an undo or redo that is not a boundary no-op sets the content to an
\* entry that exists in the history, history[historyIndex] for the new
\* historyIndex; the content never becomes undefined.
C18_UndoRedoReadsEntry ==
    /\ [][(last'.op \in {"Undo", "Redo"} /\ historyIndex' # historyIndex) =>
             /\ 0 <= historyIndex'
             /\ historyIndex' < Len(history')
             /\ doc'.content = history'[historyIndex' + 1]]_vars
    /\ [](doc.content # Undefined)

\* C19: whenever the history is not empty and no debounce callback is
\* pending, the content is history[historyIndex].
C19_ContentIsCurrentEntry ==
    (Len(history) > 0 /\ timers = {}) =>
        /\ 0 <= historyIndex
        /\ historyIndex < Len(history)
        /\ doc.content = history[historyIndex + 1]

====
